---------------------------- MODULE Spec2Model ----------------------------
(***************************************************************************)
(* Model of the in-process rate limiter (app/cache.py, rate_limit) and of  *)
(* the task layer with its synchronous fallback (app/celery.py).           *)
(***************************************************************************)
EXTENDS Integers, Sequences, FiniteSets, TLC

(* ------------------------------ bounds -------------------------------- *)
NumThreads == 2
MaxCalls == 4
MaxTime == 2
MaxLimit == 2
MaxPer == 2
MaxRuns == 1
MaxInits == 2

Threads == 1..NumThreads
Times == 0..MaxTime

(* request.remote_addr values, the decorated handlers and scope_func()    *)
(* values.  "h1" is decorated without a scope_func, "h2" with one.        *)
Addrs == {"::1", "::1:2"}
Scopes == {"2"}
Handlers == {"h1", "h2"}

VARIABLES
  now,      \* the wall clock read by time.time()
  store,    \* current_app._rate_limit_store: key -> list of timestamps
  lock,     \* current_app._rate_limit_lock: 0 when free, else the holder
  policy,   \* closure of each decorated handler: limit, per, scope_func set?
  workers,  \* the request-handling threads of the process
  clients,  \* the addresses requests come from
  pc,       \* where each thread stands inside wrapped()
  call,     \* locals of the call each thread is executing
  ran,      \* number of times the wrapped handler f ran in the current call
  resp,     \* what the current call gave back: "none", "429" or "ok"
  log,      \* history: one record per finished check, in lock-release order
  ncalls,   \* history: number of calls started
  celeryAvailable, \* CELERY_AVAILABLE, set when app/celery.py is imported
  beatSchedule,    \* celery.conf.beat_schedule: entry name -> entry
  contextTask,     \* celery.Task has been replaced by ContextTask
  warnings,        \* number of fallback warnings logged so far
  inits,           \* number of init_celery calls made so far
  exec,            \* the handler execution of the caller and of the worker
  queue,           \* tasks handed to the broker, not yet taken by the worker
  dispatching,     \* the dispatch the caller is in: task, how it was made
  errorsLogged,    \* number of logging.error calls made by the handlers
  tlog             \* history: one record per finished dispatch or worker run

rlVars == <<now, store, lock, policy, workers, clients, pc, call, ran, resp, log,
           ncalls>>

taskVars == <<celeryAvailable, beatSchedule, contextTask, warnings, inits,
              exec, queue, dispatching, errorsLogged, tlog>>

vars == <<rlVars, taskVars>>

(* ----------------------- cache.py: rate_limit -------------------------- *)

EmptyStore == [k \in {} |-> <<>>]

NoScope == ""

NoCall == [addr |-> "", fn |-> "", scope |-> NoScope, key |-> "", time |-> 0,
           present |-> FALSE, before |-> <<>>, purged |-> <<>>,
           outcome |-> "none", storeBefore |-> EmptyStore]

(* wrapped() has returned or raised: its locals are gone, the outcome of   *)
(* the call is remembered                                                  *)
Returned(outcome) == [NoCall EXCEPT !.outcome = outcome]

(* lines 51-53: key = request.remote_addr; key = f"{key}:{scope_func()}"   *)
MakeKey(addr, scoped, scope) ==
  IF scoped THEN addr \o ":" \o scope ELSE addr

(* a purge that keeps an entry exactly per old                             *)
KeepInclusive(current_time, t, per) == current_time - t <= per

(* lines 59-62: [t for t in store[key] if current_time - t < per]          *)
Keep(current_time, t, per) == current_time - t < per

Purged(win, current_time, per) ==
  SelectSeq(win, LAMBDA t : Keep(current_time, t, per))

(* lines 58-64 on the whole mapping                                        *)
PurgeStore(st, key, current_time, per) ==
  IF key \in DOMAIN st
    THEN [st EXCEPT ![key] = Purged(st[key], current_time, per)]
    ELSE [k \in DOMAIN st \cup {key} |-> IF k = key THEN <<>> ELSE st[k]]

(* a limit test that lets one call too many through                       *)
LimitExceededOffByOne(win, limit) == Len(win) > limit

(* line 67: len(store[key]) >= limit                                       *)
LimitExceeded(win, limit) == Len(win) >= limit

(* an append that never reaches the stored list                            *)
AppendStoreDropped(st, key, current_time) == st

(* line 72: store[key].append(current_time)                                *)
AppendStore(st, key, current_time) ==
  [st EXCEPT ![key] = Append(st[key], current_time)]

(* a limiter that enters its critical section without waiting for the lock *)
LockFreeIgnored == TRUE

(* line 56: the lock can be taken only when nobody holds it                *)
LockFree == lock = 0

(* line 56: leaving the with block, normally or by an exception, releases  *)
(* the lock                                                                *)
ReleasedLock(t) == 0

(* lines 49-55: a request arrives on a worker thread that is idle or has   *)
(* returned from its previous call; the key is built and the clock is read *)
(* before the lock is requested.                                           *)
Enter(t) ==
  /\ t \in workers
  /\ pc[t] \in {"idle", "done"}
  /\ ncalls < MaxCalls
  /\ \E a \in clients, h \in Handlers, s \in Scopes :
       call' = [call EXCEPT ![t] =
                  [NoCall EXCEPT !.addr = a, !.fn = h,
                     !.scope = IF policy[h].scoped THEN s ELSE NoScope,
                     !.key = MakeKey(a, policy[h].scoped, s),
                     !.time = now]]
  /\ pc' = [pc EXCEPT ![t] = "acquire"]
  /\ ncalls' = ncalls + 1
  /\ ran' = [ran EXCEPT ![t] = 0]
  /\ resp' = [resp EXCEPT ![t] = "none"]
  /\ UNCHANGED <<now, store, lock, policy, workers, clients, log, taskVars>>

(* the record of a finished check, written when the lock is released      *)
LogEntry(t, outcome, st) ==
  [addr |-> call[t].addr, fn |-> call[t].fn, scope |-> call[t].scope,
   key |-> call[t].key, time |-> call[t].time, present |-> call[t].present,
   before |-> call[t].before, purged |-> call[t].purged,
   outcome |-> outcome, after |-> st[call[t].key],
   storeBefore |-> call[t].storeBefore, storeAfter |-> st]

(* lines 56-64: the with block is entered (the lock is taken) and the old  *)
(* entries of the key are cleaned up                                       *)
Acquire(t) ==
  /\ pc[t] = "acquire"
  /\ LockFree
  /\ lock' = t
  /\ store' = PurgeStore(store, call[t].key, call[t].time, policy[call[t].fn].per)
  /\ call' = [call EXCEPT ![t].present = call[t].key \in DOMAIN store,
                          ![t].before = IF call[t].key \in DOMAIN store
                                          THEN store[call[t].key] ELSE <<>>,
                          ![t].storeBefore = store,
                          ![t].purged = store'[call[t].key]]
  /\ pc' = [pc EXCEPT ![t] = "check"]
  /\ UNCHANGED <<now, policy, workers, clients, ran, resp, log, ncalls, taskVars>>

(* the check of a limiter that records the attempt before it aborts       *)
CheckRecording(t) ==
  /\ pc[t] = "check"
  /\ IF LimitExceeded(store[call[t].key], policy[call[t].fn].limit)
       THEN /\ call' = [call EXCEPT ![t] = Returned("rejected")]
            /\ store' = AppendStore(store, call[t].key, call[t].time)
            /\ lock' = ReleasedLock(t)
            /\ log' = Append(log, LogEntry(t, "rejected", store'))
            /\ resp' = [resp EXCEPT ![t] = "429"]
            /\ pc' = [pc EXCEPT ![t] = "done"]
       ELSE /\ call' = [call EXCEPT ![t].outcome = "allowed"]
            /\ pc' = [pc EXCEPT ![t] = "append"]
            /\ UNCHANGED <<store, lock, log, resp>>
  /\ UNCHANGED <<now, policy, workers, clients, ran, ncalls, taskVars>>

(* a limiter that takes and releases the lock by hand: the abort skips    *)
(* the release                                                             *)
CheckKeepingLock(t) ==
  /\ pc[t] = "check"
  /\ IF LimitExceeded(store[call[t].key], policy[call[t].fn].limit)
       THEN /\ call' = [call EXCEPT ![t] = Returned("rejected")]
            /\ log' = Append(log, LogEntry(t, "rejected", store))
            /\ resp' = [resp EXCEPT ![t] = "429"]
            /\ pc' = [pc EXCEPT ![t] = "done"]
            /\ UNCHANGED lock
       ELSE /\ call' = [call EXCEPT ![t].outcome = "allowed"]
            /\ pc' = [pc EXCEPT ![t] = "append"]
            /\ UNCHANGED <<lock, log, resp>>
  /\ UNCHANGED <<now, store, policy, workers, clients, ran, ncalls, taskVars>>

(* lines 66-69: check if the limit is exceeded.  abort(429) raises an      *)
(* HTTPException that leaves the with block, which releases the lock, and  *)
(* leaves wrapped() without reaching line 74.                              *)
Check(t) ==
  /\ pc[t] = "check"
  /\ IF LimitExceeded(store[call[t].key], policy[call[t].fn].limit)
       THEN /\ call' = [call EXCEPT ![t] = Returned("rejected")]
            /\ lock' = ReleasedLock(t)
            /\ log' = Append(log, LogEntry(t, "rejected", store))
            /\ resp' = [resp EXCEPT ![t] = "429"]
            /\ pc' = [pc EXCEPT ![t] = "done"]
       ELSE /\ call' = [call EXCEPT ![t].outcome = "allowed"]
            /\ pc' = [pc EXCEPT ![t] = "append"]
            /\ UNCHANGED <<lock, log, resp>>
  /\ UNCHANGED <<now, store, policy, workers, clients, ran, ncalls, taskVars>>

(* a limiter whose return statement is indented into the with block: the  *)
(* handler is entered with the lock held                                   *)
AppendTimeHoldingLock(t) ==
  /\ pc[t] = "append"
  /\ store' = AppendStore(store, call[t].key, call[t].time)
  /\ log' = Append(log, LogEntry(t, "allowed", store'))
  /\ pc' = [pc EXCEPT ![t] = "handler"]
  /\ UNCHANGED <<now, lock, policy, workers, clients, call, ran, resp, ncalls,
                 taskVars>>

(* line 72: add the current request; the with block ends there and         *)
(* releases the lock                                                       *)
AppendTime(t) ==
  /\ pc[t] = "append"
  /\ store' = AppendStore(store, call[t].key, call[t].time)
  /\ lock' = ReleasedLock(t)
  /\ log' = Append(log, LogEntry(t, "allowed", store'))
  /\ pc' = [pc EXCEPT ![t] = "handler"]
  /\ UNCHANGED <<now, policy, workers, clients, call, ran, resp, ncalls, taskVars>>

(* line 74: return the wrapped handler f                                      *)
RunHandler(t) ==
  /\ pc[t] = "handler"
  /\ ran' = [ran EXCEPT ![t] = ran[t] + 1]
  /\ resp' = [resp EXCEPT ![t] = "ok"]
  /\ pc' = [pc EXCEPT ![t] = "done"]
  /\ call' = [call EXCEPT ![t] = Returned("allowed")]
  /\ UNCHANGED <<now, store, lock, policy, workers, clients, log, ncalls, taskVars>>

(* time passes                                                             *)
Tick ==
  /\ now < MaxTime
  /\ now' = now + 1
  /\ UNCHANGED <<store, lock, policy, workers, clients, pc, call, ran, resp, log,
                 ncalls, taskVars>>

(* ------------------------------ celery.py ------------------------------ *)

(* the functions decorated with @celery.task, lines 80, 115 and 155        *)
TaskNames == {"update_point_caches", "generate_daily_statistics",
              "send_inactivity_notifications"}

(* the ways a task is dispatched: task(), task.delay(), task.apply_async() *)
Vias == {"call", "delay", "apply_async"}

(* who runs a handler: the thread that dispatched it, or a Celery worker   *)
Executors == {"caller", "worker"}

(* the statements of each handler in order; the imports (lines 84-86,      *)
(* 119-121, 159) come first and stand before the try block                 *)
Steps(task) ==
  CASE task = "update_point_caches" ->
         <<"import", "query_students", "sum_student_points",
           "query_teachers", "sum_teacher_points", "commit">>
    [] task = "generate_daily_statistics" ->
         <<"import", "utcnow", "transactions_count", "total_points",
           "active_teachers", "active_students">>
    [] task = "send_inactivity_notifications" ->
         <<"import", "threshold", "query_teachers", "last_transactions">>

(* lines 88, 123, 161: the try block starts after the imports              *)
InTry(task, i) == Steps(task)[i] # "import"

NoResult == [none |-> TRUE]

(* lines 106, 149, 180: what each handler returns when nothing fails       *)
SuccessResult(task) ==
  CASE task = "update_point_caches" ->
         [success |-> TRUE, timestamp |-> "utcnow"]
    [] task = "generate_daily_statistics" ->
         [timestamp |-> "utcnow", date |-> "yesterday", counts |-> "stats"]
    [] task = "send_inactivity_notifications" ->
         [inactive_teacher_count |-> "n", teachers |-> "inactive"]

(* lines 112, 152, 183: {'success': False, 'error': str(e)}                *)
FailureRecord(msg) == [success |-> FALSE, error |-> msg]

(* an exception that left the handler                                      *)
Raised(msg) == [raised |-> msg]

(* what Celery's delay and apply_async give back at once                   *)
AsyncResult(task) == [async_result |-> task]

IsFailureRecord(r) ==
  /\ DOMAIN r = {"success", "error"}
  /\ r.success = FALSE

IsRaised(r) == DOMAIN r = {"raised"}

IsAsyncResult(r) == DOMAIN r = {"async_result"}

Idle == [task |-> "", step |-> 0, failed |-> 0, runs |-> 0,
         state |-> "idle", result |-> NoResult]

Started(task) == [Idle EXCEPT !.task = task, !.step = 1, !.runs = 1,
                              !.state = "running"]

NoDispatch == [task |-> "", via |-> "", state |-> "idle", ret |-> NoResult]

(* celery.schedules.crontab: a field left out matches any value            *)
Star == [any |-> TRUE, val |-> 0]
Lit(n) == [any |-> FALSE, val |-> n]

(* lines 64-77: the beat schedule init_celery configures                   *)
ConfiguredSchedule ==
  [n \in {"update-point-caches-hourly", "generate-daily-statistics",
          "send-inactivity-notifications"} |->
     CASE n = "update-point-caches-hourly" ->
            [task |-> "app.celery.update_point_caches",
             kind |-> "interval", every |-> 3600,
             minute |-> Star, hour |-> Star, day_of_week |-> Star,
             day_of_month |-> Star, month_of_year |-> Star]
       [] n = "generate-daily-statistics" ->
            [task |-> "app.celery.generate_daily_statistics",
             kind |-> "crontab", every |-> 0,
             minute |-> Lit(5), hour |-> Lit(0), day_of_week |-> Star,
             day_of_month |-> Star, month_of_year |-> Star]
       [] n = "send-inactivity-notifications" ->
            [task |-> "app.celery.send_inactivity_notifications",
             kind |-> "crontab", every |-> 0,
             minute |-> Lit(0), hour |-> Lit(9), day_of_week |-> Lit(1),
             day_of_month |-> Star, month_of_year |-> Star]]

(* line 34 and Celery's default: no schedule entry                         *)
EmptySchedule == [n \in {} |-> <<>>]

(* an init_celery that configures the schedule in both modes               *)
ReturnsEarlyNever == FALSE

(* line 50: if not CELERY_AVAILABLE (warn and return)                      *)
ReturnsEarly == ~celeryAvailable

(* lines 48-77: init_celery(app)                                           *)
InitCelery ==
  /\ inits < MaxInits
  /\ inits' = inits + 1
  /\ IF ReturnsEarly
       THEN /\ warnings' = warnings + 1
            /\ UNCHANGED <<beatSchedule, contextTask>>
       ELSE /\ contextTask' = TRUE
            /\ beatSchedule' = ConfiguredSchedule
            /\ UNCHANGED warnings
  /\ UNCHANGED <<celeryAvailable, exec, queue, dispatching, errorsLogged, tlog,
                 rlVars>>

(* a fallback whose delay and apply_async defer the task                   *)
RunsInlineOnlyCall(via) == via = "call"

(* lines 36-42 and a direct call: the fallback's delay and apply_async     *)
(* call f itself; with Celery only a direct call runs the task inline      *)
RunsInline(via) == ~celeryAvailable \/ via = "call"

DispatchCount ==
  Cardinality({i \in DOMAIN tlog : tlog[i].who = "caller"})
    + (IF dispatching.state = "inline" THEN 1 ELSE 0)

(* a caller dispatches a task: task(), task.delay() or task.apply_async()  *)
Dispatch(task, via) ==
  /\ dispatching.state # "inline"
  /\ DispatchCount < MaxRuns
  /\ IF RunsInline(via)
       THEN /\ dispatching' = [task |-> task, via |-> via, state |-> "inline",
                               ret |-> NoResult]
            /\ exec' = [exec EXCEPT !["caller"] = Started(task)]
            /\ UNCHANGED <<queue, tlog>>
       ELSE /\ queue' = Append(queue, task)
            /\ dispatching' = [task |-> task, via |-> via, state |-> "returned",
                               ret |-> AsyncResult(task)]
            /\ tlog' = Append(tlog,
                 [who |-> "caller", task |-> task, via |-> via,
                  sync |-> ~celeryAvailable, failedStep |-> 0,
                  handlerRuns |-> 0, handler |-> NoResult,
                  ret |-> AsyncResult(task)])
            /\ UNCHANGED exec
  /\ UNCHANGED <<celeryAvailable, beatSchedule, contextTask, warnings, inits,
                 errorsLogged, rlVars>>

(* a statement of the handler completes; after the last one the handler    *)
(* returns its result (lines 106, 149, 180)                                *)
StepOk(x) ==
  /\ exec[x].state = "running"
  /\ IF exec[x].step < Len(Steps(exec[x].task))
       THEN exec' = [exec EXCEPT ![x].step = exec[x].step + 1]
       ELSE exec' = [exec EXCEPT ![x].state = "returned",
                                 ![x].result = SuccessResult(exec[x].task)]
  /\ UNCHANGED <<celeryAvailable, beatSchedule, contextTask, warnings, inits,
                 queue, dispatching, errorsLogged, tlog, rlVars>>

(* a statement of the handler raises; inside the try block the except      *)
(* clause logs the error and returns the failure record (lines 107-112,    *)
(* 150-152, 181-183), outside it the exception leaves the handler          *)
StepRaise(x) ==
  /\ exec[x].state = "running"
  /\ LET i == exec[x].step
         msg == Steps(exec[x].task)[i]
     IN  IF InTry(exec[x].task, i)
           THEN /\ exec' = [exec EXCEPT ![x].state = "returned",
                                        ![x].failed = i,
                                        ![x].result = FailureRecord(msg)]
                /\ errorsLogged' = errorsLogged + 1
           ELSE /\ exec' = [exec EXCEPT ![x].state = "raised",
                                        ![x].failed = i,
                                        ![x].result = Raised(msg)]
                /\ UNCHANGED errorsLogged
  /\ UNCHANGED <<celeryAvailable, beatSchedule, contextTask, warnings, inits,
                 queue, dispatching, tlog, rlVars>>

(* lines 23, 26, 29, 39, 40: the inline dispatch gives back what the       *)
(* handler gave back, or lets its exception through                        *)
DispatchReturn ==
  /\ dispatching.state = "inline"
  /\ exec["caller"].state \in {"returned", "raised"}
  /\ dispatching' = [dispatching EXCEPT !.state = "returned",
                                        !.ret = exec["caller"].result]
  /\ tlog' = Append(tlog,
       [who |-> "caller", task |-> dispatching.task, via |-> dispatching.via,
        sync |-> ~celeryAvailable, failedStep |-> exec["caller"].failed,
        handlerRuns |-> exec["caller"].runs,
        handler |-> exec["caller"].result, ret |-> exec["caller"].result])
  /\ exec' = [exec EXCEPT !["caller"] = Idle]
  /\ UNCHANGED <<celeryAvailable, beatSchedule, contextTask, warnings, inits,
                 queue, errorsLogged, rlVars>>

(* lines 56-61: a Celery worker takes a task from the broker and runs it   *)
WorkerTake ==
  /\ queue # <<>>
  /\ exec["worker"].state = "idle"
  /\ exec' = [exec EXCEPT !["worker"] = Started(Head(queue))]
  /\ queue' = Tail(queue)
  /\ UNCHANGED <<celeryAvailable, beatSchedule, contextTask, warnings, inits,
                 dispatching, errorsLogged, tlog, rlVars>>

(* the worker has finished the task                                        *)
WorkerDone ==
  /\ exec["worker"].state \in {"returned", "raised"}
  /\ tlog' = Append(tlog,
       [who |-> "worker", task |-> exec["worker"].task, via |-> "worker",
        sync |-> FALSE, failedStep |-> exec["worker"].failed,
        handlerRuns |-> exec["worker"].runs,
        handler |-> exec["worker"].result, ret |-> exec["worker"].result])
  /\ exec' = [exec EXCEPT !["worker"] = Idle]
  /\ UNCHANGED <<celeryAvailable, beatSchedule, contextTask, warnings, inits,
                 queue, dispatching, errorsLogged, rlVars>>

(* lines 6-45: the module has been imported; without Celery the fallback   *)
(* warning has been logged once and the dummy classes are in place         *)
InitTasks(available) ==
  /\ celeryAvailable = available
  /\ beatSchedule = EmptySchedule
  /\ contextTask = FALSE
  /\ warnings = (IF available THEN 0 ELSE 1)
  /\ inits = 0
  /\ exec = [x \in Executors |-> Idle]
  /\ queue = <<>>
  /\ dispatching = NoDispatch
  /\ errorsLogged = 0
  /\ tlog = <<>>

(* ------------------------- the specifications -------------------------- *)

(* lines 37-46: rate_limit(limit, per, scope_func) creates the store and   *)
(* the lock once                                                           *)
InitStore ==
  /\ now = 0
  /\ store = EmptyStore
  /\ lock = 0
  /\ pc = [t \in Threads |-> "idle"]
  /\ call = [t \in Threads |-> NoCall]
  /\ ran = [t \in Threads |-> 0]
  /\ resp = [t \in Threads |-> "none"]
  /\ log = <<>>
  /\ ncalls = 0

(* every handler is decorated with the same limit and per; "h2" also has   *)
(* a scope_func                                                            *)
InitRateLimit ==
  /\ InitStore
  /\ \E L \in 1..MaxLimit, P \in 1..MaxPer :
       policy = [h \in Handlers |->
                   [limit |-> L, per |-> P, scoped |-> (h = "h2")]]

(* every thread serves requests, from every address                        *)
Init ==
  /\ InitRateLimit
  /\ workers = Threads
  /\ clients = Addrs
  /\ InitTasks(FALSE)

(* one thread serves the requests of one address                           *)
InitSeq ==
  /\ InitRateLimit
  /\ workers = {1}
  /\ clients = {"::1"}
  /\ InitTasks(FALSE)

(* lines 37-53: two handlers decorated with different limit and per and    *)
(* no scope_func: both build the key of a client from its address alone    *)
(* and use the one store of the application                                *)
InitShared ==
  /\ InitStore
  /\ \E L1 \in 1..MaxLimit, P1 \in 1..MaxPer,
        L2 \in 1..MaxLimit, P2 \in 1..MaxPer :
       /\ <<L1, P1>> # <<L2, P2>>
       /\ policy = [h \in Handlers |->
                      IF h = "h1"
                        THEN [limit |-> L1, per |-> P1, scoped |-> FALSE]
                        ELSE [limit |-> L2, per |-> P2, scoped |-> FALSE]]
  /\ workers = {1}
  /\ clients = {"::1"}
  /\ InitTasks(FALSE)

(* every thread serves the requests of one address                         *)
InitOneClient ==
  /\ InitRateLimit
  /\ workers = Threads
  /\ clients = {"::1"}
  /\ InitTasks(FALSE)

(* line 37: the defaults limit=100, per=60; no request is served           *)
InitTaskLayer ==
  /\ InitStore
  /\ policy = [h \in Handlers |->
                 [limit |-> 100, per |-> 60, scoped |-> (h = "h2")]]
  /\ workers = {}
  /\ clients = {}
  /\ \E available \in BOOLEAN : InitTasks(available)

Next ==
  \/ \E t \in Threads : Enter(t)
  \/ \E t \in Threads : Acquire(t)
  \/ \E t \in Threads : Check(t)
  \/ \E t \in Threads : AppendTime(t)
  \/ \E t \in Threads : RunHandler(t)
  \/ Tick

NextTasks ==
  \/ InitCelery
  \/ \E task \in TaskNames, via \in Vias : Dispatch(task, via)
  \/ \E x \in Executors : StepOk(x)
  \/ \E x \in Executors : StepRaise(x)
  \/ DispatchReturn
  \/ WorkerTake
  \/ WorkerDone

(* the multi-threaded request-serving process                              *)
Spec == Init /\ [][Next]_vars

(* the same process serving one request at a time                          *)
SpecSeq == InitSeq /\ [][Next]_vars

(* one client calling two handlers that are limited differently            *)
SpecShared == InitShared /\ [][Next]_vars

(* a thread inside the with block is not blocked, so it goes on to its     *)
(* check and to its append or abort; a thread waiting at line 56 is given  *)
(* the lock if the lock is free again and again (fair scheduling)          *)
Fairness ==
  \A t \in Threads :
    /\ WF_vars(Check(t))
    /\ WF_vars(AppendTime(t))
    /\ SF_vars(Acquire(t))

(* the multi-threaded process under fair scheduling                        *)
SpecFair == InitOneClient /\ [][Next]_vars /\ Fairness

(* the task layer: import, init_celery, dispatches and worker runs         *)
SpecTasks == InitTaskLayer /\ [][NextTasks]_vars

TypeOK ==
  /\ now \in Times
  /\ lock \in {0} \cup Threads
  /\ ncalls \in 0..MaxCalls
  /\ Len(log) <= MaxCalls

(* ---------------------- properties: rate limiter ----------------------- *)

Limit(e) == policy[e.fn].limit
Per(e) == policy[e.fn].per

Allowed(e) == e.outcome = "allowed"
Rejected(e) == e.outcome = "rejected"

(* the checks of one key, in the order in which they held the lock         *)
KeyChecks(k) == SelectSeq(log, LAMBDA e : e.key = k)

LoggedKeys == {log[i].key : i \in DOMAIN log}

(* the Allowed calls of handler h by key k stamped in the window [a, a+P)  *)
AllowedInWindow(k, h, a) ==
  {i \in DOMAIN log : /\ log[i].key = k
                      /\ log[i].fn = h
                      /\ Allowed(log[i])
                      /\ a <= log[i].time
                      /\ log[i].time < a + policy[h].per}

(* the checks of key k read the clock in the order in which they ran       *)
NonDecreasing(k) ==
  \A i, j \in DOMAIN log :
    (i < j /\ log[i].key = k /\ log[j].key = k) => log[i].time <= log[j].time

(* C1: when the checks of a key are made one after another with            *)
(* non-decreasing clock readings, no window [a, a+per) holds the           *)
(* timestamps of more than limit Allowed calls of a handler by that key.   *)
C1_SequentialSlidingWindow ==
  \A k \in LoggedKeys, h \in Handlers, a \in Times :
    NonDecreasing(k) => Cardinality(AllowedInWindow(k, h, a)) <= policy[h].limit

(* C1 witness: a key was Allowed, then Rejected inside the same window,    *)
(* then Allowed again once the window had moved on.                        *)
C1_Witness ==
  \E i, j, l \in DOMAIN log :
    /\ i < j /\ j < l
    /\ log[i].key = log[j].key /\ log[j].key = log[l].key
    /\ log[i].fn = log[j].fn /\ log[j].fn = log[l].fn
    /\ Allowed(log[i]) /\ Rejected(log[j]) /\ Allowed(log[l])
    /\ log[j].time - log[i].time < Per(log[i])

InCriticalSection(t) == pc[t] \in {"check", "append"}

(* C2: a thread between its purge and its append holds the lock, is the    *)
(* only one there, and finds the window as its own purge left it; so with  *)
(* limit 1 the first check of a key is Allowed and no two checks of the    *)
(* key that read the clock less than per apart are both Allowed.           *)
C2_AtomicCheckThenRecord ==
  /\ \A t \in Threads : InCriticalSection(t) => lock = t
  /\ \A t \in Threads :
       InCriticalSection(t) => store[call[t].key] = call[t].purged
  /\ \A i \in DOMAIN log :
       (Limit(log[i]) = 1 /\ log[i].before = <<>>) => Allowed(log[i])
  /\ \A i, j \in DOMAIN log :
       ( /\ i < j
         /\ log[i].key = log[j].key
         /\ Limit(log[i]) = 1
         /\ log[i].time - log[j].time < Per(log[i])
         /\ log[j].time - log[i].time < Per(log[i]) )
       => ~(Allowed(log[i]) /\ Allowed(log[j]))

(* C2 witness: with limit 1, a thread that read the clock no later than    *)
(* the Allowed call of the same key stands at its count check, after the   *)
(* other call's append, and finds the window full.                         *)
C2_Witness ==
  \E t \in Threads :
    /\ pc[t] = "check"
    /\ policy[call[t].fn].limit = 1
    /\ Len(log) = 1
    /\ log[1].key = call[t].key
    /\ Allowed(log[1])
    /\ call[t].time <= log[1].time
    /\ call[t].before = <<log[1].time>>
    /\ LimitExceeded(store[call[t].key], 1)

(* C3: in every interleaving of the threads, no window [a, a+per) holds    *)
(* the timestamps of more than limit Allowed calls of a handler by a key.  *)
C3_ConcurrentSlidingWindow ==
  \A i \in DOMAIN log :
    Cardinality(AllowedInWindow(log[i].key, log[i].fn, log[i].time))
      <= Limit(log[i])

(* the check before log[i] on the same key, 0 if there is none             *)
PrevCheck(i) ==
  LET S == {j \in 1..(i - 1) : log[j].key = log[i].key}
  IN  IF S = {} THEN 0 ELSE CHOOSE j \in S : \A l \in S : l <= j

(* C4: a Rejected call leaves the stored window of its key as it was       *)
(* before the call (nothing appended, nothing removed), and two            *)
(* consecutive Rejected calls of a key leave the same window.              *)
C4_RejectionDoesNotRecord ==
  \A i \in DOMAIN log :
    Rejected(log[i]) =>
      /\ log[i].present
      /\ log[i].after = log[i].before
      /\ log[i].storeAfter = log[i].storeBefore
      /\ (PrevCheck(i) # 0 /\ Rejected(log[PrevCheck(i)]))
           => log[i].after = log[PrevCheck(i)].after

(* C4 witness: two consecutive Rejected calls of a key, the second made    *)
(* at a later time than the first.                                         *)
C4_Witness ==
  \E i \in DOMAIN log :
    /\ Rejected(log[i])
    /\ PrevCheck(i) # 0
    /\ Rejected(log[PrevCheck(i)])
    /\ log[PrevCheck(i)].time < log[i].time

(* C5: a check that finds the window of its key full, per or more after    *)
(* the latest entry, opens a series: the checks of the key from it on      *)
(* that are less than per after it are Allowed up to the limit-th and the  *)
(* next one is Rejected.                                                   *)
C5_FullExpiry ==
  \A k \in LoggedKeys :
    LET sub == KeyChecks(k)
    IN  \A i \in DOMAIN sub :
          ( /\ Len(sub[i].before) = Limit(sub[i])
            /\ sub[i].time - sub[i].before[Len(sub[i].before)] >= Per(sub[i]) )
          => \A m \in 1..(Limit(sub[i]) + 1) :
               ( /\ i + m - 1 <= Len(sub)
                 /\ sub[i + m - 1].time - sub[i].time < Per(sub[i]) )
               => IF m <= Limit(sub[i])
                    THEN Allowed(sub[i + m - 1])
                    ELSE Rejected(sub[i + m - 1])

(* C5 witness: a full window expired and the key then made limit Allowed   *)
(* calls and one Rejected call inside one window.                          *)
C5_Witness ==
  \E k \in LoggedKeys :
    LET sub == KeyChecks(k)
    IN  \E i \in DOMAIN sub :
          /\ Len(sub[i].before) = Limit(sub[i])
          /\ sub[i].time - sub[i].before[Len(sub[i].before)] >= Per(sub[i])
          /\ i + Limit(sub[i]) <= Len(sub)
          /\ sub[i + Limit(sub[i])].time - sub[i].time < Per(sub[i])
          /\ Rejected(sub[i + Limit(sub[i])])

(* the client identity of a check: the address and, for a handler with a   *)
(* scope_func, the scope                                                   *)
Identity(e) == <<e.addr, policy[e.fn].scoped, e.scope>>

(* C6: a call is Rejected only when its own identity has limit Allowed     *)
(* calls inside the window, and a check changes no window but its own.     *)
C6_IdentityIsolation ==
  \A i \in DOMAIN log :
    /\ Rejected(log[i]) =>
         Cardinality({j \in 1..(i - 1) :
                        /\ Identity(log[j]) = Identity(log[i])
                        /\ Allowed(log[j])
                        /\ log[i].time - log[j].time < Per(log[i])})
           >= Limit(log[i])
    /\ \A j \in 1..(i - 1) :
         (Identity(log[j]) # Identity(log[i]) /\ log[j].key \in DOMAIN log[i].storeBefore)
           => log[i].storeAfter[log[j].key] = log[i].storeBefore[log[j].key]

(* C7: a call is Rejected exactly when the purged window holds limit       *)
(* entries or more; a Rejected call gives 429 and never runs the handler,  *)
(* an Allowed call runs the handler once and gives its result.             *)
C7_RejectionOutcome ==
  /\ \A i \in DOMAIN log :
       /\ log[i].purged = Purged(log[i].before, log[i].time, Per(log[i]))
       /\ Rejected(log[i]) <=> Len(log[i].purged) >= Limit(log[i])
       /\ Allowed(log[i]) <=> ~Rejected(log[i])
  /\ \A t \in Threads :
       /\ ran[t] <= 1
       /\ (resp[t] = "429") <=> (call[t].outcome = "rejected")
       /\ call[t].outcome = "rejected" => (pc[t] = "done" /\ ran[t] = 0)
       /\ (pc[t] = "done" /\ call[t].outcome = "allowed")
            => (ran[t] = 1 /\ resp[t] = "ok")
       /\ ran[t] = 1 => (pc[t] = "done" /\ call[t].outcome = "allowed")

(* C7 witness: one thread has been Rejected with 429 while another has     *)
(* run its handler.                                                        *)
C7_Witness ==
  \E t, u \in Threads :
    /\ pc[t] = "done" /\ resp[t] = "429" /\ ran[t] = 0
    /\ pc[u] = "done" /\ resp[u] = "ok" /\ ran[u] = 1

(* ----------------------- properties: task layer ------------------------ *)

(* C8: every handler run in which a statement failed, the first statement  *)
(* included, ended with the record {success: false, error: message}, and   *)
(* no dispatch let an exception through.                                   *)
C8_TaskFailureContainment ==
  \A i \in DOMAIN tlog :
    /\ tlog[i].failedStep # 0 => IsFailureRecord(tlog[i].handler)
    /\ ~IsRaised(tlog[i].ret)

(* C9: without Celery nothing is handed to a broker or a worker, and every *)
(* finished dispatch, by a call, delay or apply_async, ran its handler     *)
(* once on the caller before returning and gave back what the handler      *)
(* gave back, never a placeholder.                                         *)
C9_SyncDispatchInline ==
  /\ ~celeryAvailable => (queue = <<>> /\ exec["worker"].state = "idle")
  /\ \A i \in DOMAIN tlog :
       tlog[i].sync =>
         /\ tlog[i].who = "caller"
         /\ tlog[i].handlerRuns = 1
         /\ ~IsAsyncResult(tlog[i].ret)
         /\ tlog[i].ret = tlog[i].handler
         /\ tlog[i].failedStep = 0 => tlog[i].ret = SuccessResult(tlog[i].task)
         /\ (tlog[i].failedStep # 0 /\ InTry(tlog[i].task, tlog[i].failedStep))
              => IsFailureRecord(tlog[i].ret)

(* C9 witness: without Celery, a delay has returned and gave back the      *)
(* result record of the handler it ran.                                    *)
C9_Witness ==
  /\ ~celeryAvailable
  /\ dispatching.state = "returned"
  /\ \E i \in DOMAIN tlog :
       /\ tlog[i].via = "delay"
       /\ tlog[i].handlerRuns = 1
       /\ tlog[i].ret = SuccessResult(tlog[i].task)
       /\ dispatching.ret = tlog[i].ret

(* C10 as claimed: once init_celery has run, the beat schedule holds the   *)
(* same three entries with Celery and without it.                          *)
C10_SameTaskSet ==
  inits >= 1 => DOMAIN beatSchedule = DOMAIN ConfiguredSchedule

(* C10 amended: once init_celery has run, the beat schedule holds the      *)
(* three entries when Celery is available and no entry when it is not;     *)
(* before init_celery it is empty in both modes.                           *)
C10_ScheduleByMode ==
  /\ inits = 0 => beatSchedule = EmptySchedule
  /\ inits >= 1 =>
       IF celeryAvailable
         THEN beatSchedule = ConfiguredSchedule
         ELSE beatSchedule = EmptySchedule

(* C10 witness: without Celery, init_celery has run, the schedule is empty *)
(* and a task dispatched by hand has run.                                  *)
C10_Witness ==
  /\ ~celeryAvailable
  /\ inits >= 1
  /\ beatSchedule = EmptySchedule
  /\ tlog # <<>>

(* C11: without Celery, the import and the init_celery calls of one        *)
(* process start have logged one fallback warning between them, however    *)
(* many tasks were dispatched.                                             *)
C11_FallbackWarningOnce ==
  ~celeryAvailable => warnings = 1

(* the entries of win that a check reading the clock at current_time       *)
(* finds less than per old                                                 *)
YoungerThan(win, current_time, per) ==
  SelectSeq(win, LAMBDA t : current_time - t < per)

(* the entries of win that are per old or less                             *)
NotOlderThan(win, current_time, per) ==
  SelectSeq(win, LAMBDA t : current_time - t <= per)

(* C14 as claimed: every check keeps the entries of its key that are per   *)
(* old or less and removes the older ones, so an entry exactly per old     *)
(* stays and counts toward the limit.                                      *)
C14_PurgeKeepsExactlyPerOld ==
  \A i \in DOMAIN log :
    /\ log[i].purged = NotOlderThan(log[i].before, log[i].time, Per(log[i]))
    /\ Rejected(log[i])
         <=> Len(NotOlderThan(log[i].before, log[i].time, Per(log[i])))
               >= Limit(log[i])

(* C14 amended: every check, Allowed or Rejected, keeps exactly the        *)
(* entries of its key that are less than per old and removes the others;   *)
(* an entry exactly per old is removed and does not count toward the       *)
(* limit in that check.                                                    *)
C14_PurgeRemovesExactlyPerOld ==
  \A i \in DOMAIN log :
    LET young == YoungerThan(log[i].before, log[i].time, Per(log[i]))
    IN  /\ log[i].purged = young
        /\ Rejected(log[i]) <=> Len(young) >= Limit(log[i])
        /\ Rejected(log[i]) => log[i].after = young
        /\ Allowed(log[i]) => log[i].after = Append(young, log[i].time)

(* C14 witness: a check found its window full with an entry exactly per    *)
(* old and one less than per old, removed the first, kept the second and   *)
(* was Allowed.                                                            *)
C14_Witness ==
  \E i \in DOMAIN log :
    /\ Len(log[i].before) = Limit(log[i])
    /\ \E m \in DOMAIN log[i].before :
         log[i].time - log[i].before[m] = Per(log[i])
    /\ \E m \in DOMAIN log[i].before :
         /\ log[i].time - log[i].before[m] < Per(log[i])
         /\ log[i].time - log[i].before[m] >= 0
    /\ Len(log[i].purged) = 1
    /\ Allowed(log[i])

(* C15: in every state the stored window of every key is in                *)
(* non-decreasing order, also when threads read the clock before they      *)
(* take the lock and append in the order in which they took it.            *)
C15_OrderedWindow ==
  \A k \in DOMAIN store :
    \A i, j \in DOMAIN store[k] : i < j => store[k][i] <= store[k][j]

(* C16: when one client calls two handlers limited by (L1, P1) and         *)
(* (L2, P2) without a scope_func, no window [a, a+P_i) holds the           *)
(* timestamps of more than L_i Allowed calls of handler i, whatever the    *)
(* order of the calls to the two handlers.                                 *)
C16_PerHandlerBound ==
  \A h \in Handlers, a \in Times :
    Cardinality(AllowedInWindow("::1", h, a)) <= policy[h].limit

(* C17: when every check uses the same limit, the stored window of a key   *)
(* never holds more than limit timestamps, in any interleaving of Allowed  *)
(* and Rejected calls and with any clock readings.                         *)
C17_BoundedWindowLength ==
  \A k \in DOMAIN store :
    \A h \in Handlers : Len(store[k]) <= policy[h].limit

(* C17 witness: a key whose window is full has had a call Rejected, and a  *)
(* thread that read the clock earlier is in its critical section on the    *)
(* same key with limit entries stored.                                     *)
C17_Witness ==
  \E t \in Threads :
    /\ pc[t] = "check"
    /\ Len(store[call[t].key]) = policy[call[t].fn].limit
    /\ policy[call[t].fn].limit = MaxLimit
    /\ \E i \in DOMAIN log :
         /\ log[i].key = call[t].key
         /\ Rejected(log[i])
         /\ call[t].time < log[i].time

(* C18: the lock is held only by a thread between its purge and its       *)
(* append or abort, never by a thread that is waiting, running its         *)
(* handler or finished, whether the check ended Allowed or Rejected; and   *)
(* under fair scheduling every thread waiting for the lock acquires it.    *)
C18_LockReleasedOnEveryPath ==
  /\ [](\A t \in Threads : lock = t => InCriticalSection(t))
  /\ [](\A t \in Threads :
          (pc[t] = "done" /\ resp[t] \in {"429", "ok"}) => lock # t)
  /\ \A t \in Threads : (pc[t] = "acquire") ~> (pc[t] = "check")

(* C18 witness: a thread that was waiting while another thread's call was  *)
(* Rejected holds the lock after that call has finished with 429.          *)
C18_Witness ==
  \E t, u \in Threads :
    /\ t # u
    /\ pc[t] = "check" /\ lock = t
    /\ pc[u] = "done" /\ resp[u] = "429"
    /\ \E i \in DOMAIN log :
         /\ Rejected(log[i])
         /\ log[i].key = call[t].key
         /\ call[t].time < log[i].time

(* C19: a thread whose handler is running does not hold the lock, so the   *)
(* lock is free or held by another thread's check; the handler starts      *)
(* only after the append has been logged and the lock released.            *)
C19_HandlerOutsideCriticalSection ==
  \A t \in Threads :
    pc[t] = "handler" =>
      /\ lock # t
      /\ ran[t] = 0
      /\ \E i \in DOMAIN log :
           /\ Allowed(log[i])
           /\ log[i].key = call[t].key
           /\ log[i].time = call[t].time
           /\ log[i].purged = call[t].purged

(* C19 witness: while a thread's handler is running, another thread has    *)
(* taken the lock after it, found the running call's timestamp in the      *)
(* window of the same key and finished its check with 429, and a third     *)
(* check is in its critical section.                                       *)
C19_Witness ==
  \E t, u \in Threads :
    /\ t # u
    /\ pc[t] = "handler"
    /\ Len(log) >= 2
    /\ Rejected(log[Len(log)])
    /\ log[Len(log)].key = call[t].key
    /\ log[Len(log)].before = Append(call[t].purged, call[t].time)
    /\ pc[u] = "check"
    /\ lock = u

=============================================================================
